---- MODULE Spec2Model ----
(***************************************************************************)
(* Model of src/maglev.go (the revision at lines 143-303): a Maglev        *)
(* consistent-hashing table with NewMaglev, Add, Remove, Contains, Lookup. *)
(*                                                                         *)
(* Node identifiers are Go strings.  They are modelled by the naturals     *)
(* 1..MaxNode, whose numeric order stands for the byte-wise order of the   *)
(* strings; Empty (0) stands for the empty string "", the value of an      *)
(* unassigned slot of the lookup table (line 219).  Slices are 1-based     *)
(* sequences here; positions returned by SearchStrings stay 0-based.       *)
(* A run-time panic (index out of range, explicit panic) is modelled as    *)
(* the outcome "panic" of the call: the fields written before the panic    *)
(* keep their new values, the rest keep their old ones.                    *)
(* Calls are made one at a time (the code is single-threaded): ret holds   *)
(* the result of the call that has just returned and old the fields as the *)
(* call found them, until the caller takes the result (Return).            *)
(***************************************************************************)
EXTENDS Integers, Sequences, FiniteSets

VARIABLES constructed, numPartitions, h1, h2, nodes, permutations, lookup,
          ret, old

vars == <<constructed, numPartitions, h1, h2, nodes, permutations, lookup,
          ret, old>>

----------------------------------------------------------------------------
(* Bounds of the model *)

MaxNode == 3

MaxPartitions == 5

MaxHash == 1

MaxBatch == 2

MaxKey == 6

MaxHashValue == 6

Empty == 0

NoValue == 0 - 1

Nodes == 1..MaxNode

Keys == 0..MaxKey

\* The Hasher capability: deterministic functions from node identifiers to
\* hash values in 0..MaxHash, here the constant ones (every node collides)
\* and the shifted identities x |-> (x + b) mod (MaxHash + 1).
Hashers == {[x \in Nodes |-> b] : b \in 0..MaxHash}
           \cup {[x \in Nodes |-> (x + b) % (MaxHash + 1)] : b \in 0..MaxHash}

Batches == UNION {[1..k -> Nodes] : k \in 0..MaxBatch}

NodeLists == {s \in UNION {[1..k -> Nodes] : k \in 0..MaxNode} :
                \A i, j \in 1..Len(s) : i # j => s[i] # s[j]}

Range(s) == {s[i] : i \in 1..Len(s)}

----------------------------------------------------------------------------
(* Library functions used by the code *)

\* A primality test whose table of small primes misses the even prime.
ProbablyPrimeOddOnly(n) == n \in {3, 5, 7, 11, 13, 17, 19, 23, 29, 31, 37, 41,
                                   43, 47, 53, 59, 61}

\* math/big ProbablyPrime(0) on a value below 64: a lookup in the bit mask
\* of the primes below 64.
ProbablyPrime(n) == n \in {2, 3, 5, 7, 11, 13, 17, 19, 23, 29, 31, 37, 41,
                            43, 47, 53, 59, 61}

\* sort.Search: binary search for the smallest index in [lo, hi) whose
\* element is >= x, hi if there is none (0-based).
RECURSIVE Search(_, _, _, _)
Search(a, x, lo, hi) ==
    IF lo < hi
    THEN LET h == (lo + hi) \div 2
         IN  IF a[h + 1] < x THEN Search(a, x, h + 1, hi)
                             ELSE Search(a, x, lo, h)
    ELSE lo

SearchStrings(a, x) == Search(a, x, 0, Len(a))

\* A sort that leaves the list as it is.
SortStringsNone(s) == s

\* sort.Strings, as an insertion sort.
RECURSIVE SortStrings(_)
SortStrings(s) ==
    IF Len(s) = 0 THEN <<>>
    ELSE LET rest == SortStrings(Tail(s))
             x    == Head(s)
             k    == Cardinality({i \in 1..Len(rest) : rest[i] < x})
         IN  SubSeq(rest, 1, k) \o <<x>> \o SubSeq(rest, k + 1, Len(rest))

----------------------------------------------------------------------------
(* Permutation generator *)

\* A generator whose skip is taken modulo p, so that it can be 0.
generatePermutationsForNodeSkipModP(node, p, hh1, hh2) ==
    LET offset == hh1[node] % p
        skip   == hh2[node] % p
    IN  [i \in 1..p |-> (offset + (i - 1) * skip) % p]

generatePermutationsForNode(node, p, hh1, hh2) ==
    LET offset == hh1[node] % p
        skip   == (hh2[node] % (p - 1)) + 1
    IN  [i \in 1..p |-> (offset + (i - 1) * skip) % p]

generatePermutations(ns, p, hh1, hh2) ==
    [x \in Range(ns) |-> generatePermutationsForNode(x, p, hh1, hh2)]

----------------------------------------------------------------------------
(* Lookup table builder *)

\* An inner loop that never advances the cursor past a taken slot.
ProbeNoSkip(tbl, perm, k) == k

\* The inner loop of populateLookup (lines 218-222): advance the cursor k of
\* a node while the slot its permutation names is taken.  A cursor that
\* reaches Len(perm) is an index out of range.
RECURSIVE Probe(_, _, _)
Probe(tbl, perm, k) ==
    IF k >= Len(perm) THEN k
    ELSE IF tbl[perm[k + 1] + 1] # Empty THEN Probe(tbl, perm, k + 1)
    ELSE k

\* An outer loop that keeps serving the same node.
NextIndexStuck(i, N) == i

\* The node visited after node i of N: range over m.nodes inside for {}.
NextIndex(i, N) == IF i = N THEN 1 ELSE i + 1

\* for { for i, ID := range m.nodes { ... } } of populateLookup, from the
\* visit of node i on.  st = [lookup, next, n, panic].
RECURSIVE Fill(_, _, _, _, _)
Fill(ns, perms, p, st, i) ==
    LET ID == ns[i]
        k  == Probe(st.lookup, perms[ID], st.next[i])
    IN  IF k >= Len(perms[ID])
        THEN [st EXCEPT !.next[i] = k, !.panic = TRUE]
        ELSE LET c   == perms[ID][k + 1]
                 st2 == [lookup |-> [st.lookup EXCEPT ![c + 1] = ID],
                         next   |-> [st.next EXCEPT ![i] = k + 1],
                         n      |-> st.n + 1,
                         panic  |-> FALSE]
             IN  IF st2.n = p THEN st2
                 ELSE Fill(ns, perms, p, st2, NextIndex(i, Len(ns)))

\* A build whose cursors start at 1, past each node's first preference.
populateLookupFromOne(ns, perms, p) ==
    Fill(ns, perms, p,
         [lookup |-> [c \in 1..p |-> Empty],
          next   |-> [i \in 1..Len(ns) |-> 1],
          n      |-> 0,
          panic  |-> FALSE],
         1)

\* A build whose filled counter starts at 1, so that it stops one
\* assignment early.
populateLookupEarly(ns, perms, p) ==
    Fill(ns, perms, p,
         [lookup |-> [c \in 1..p |-> Empty],
          next   |-> [i \in 1..Len(ns) |-> 0],
          n      |-> 1,
          panic  |-> FALSE],
         1)

\* populateLookup for a non-empty node list: a fresh table, cursors at 0.
populateLookup(ns, perms, p) ==
    Fill(ns, perms, p,
         [lookup |-> [c \in 1..p |-> Empty],
          next   |-> [i \in 1..Len(ns) |-> 0],
          n      |-> 0,
          panic  |-> FALSE],
         1)

----------------------------------------------------------------------------
(* Query interface *)

\* A partition index taken modulo one more than the number of partitions.
PartitionIDOff(key, p) == key % (p + 1)

PartitionID(key, p) == key % p

\* A lookup that returns the zero value when the index is out of range.
LookupZero(tbl, key, p) ==
    IF PartitionID(key, p) < Len(tbl) THEN tbl[PartitionID(key, p) + 1]
    ELSE Empty

\* Lookup on a given table: the owner, or "panic" when the index is out of
\* range (a nil table).
Lookup(tbl, key, p) ==
    IF PartitionID(key, p) < Len(tbl) THEN tbl[PartitionID(key, p) + 1]
    ELSE NoValue

Size == Len(nodes)

Partitions == numPartitions

----------------------------------------------------------------------------
(* Membership loops of Add and Remove *)

\* An insertion that appends the node instead of placing it at pos.
InsertAtEnd(ns, pos, node) == ns \o <<node>>

InsertAt(ns, pos, node) ==
    SubSeq(ns, 1, pos) \o <<node>> \o SubSeq(ns, pos + 1, Len(ns))

DeleteAt(ns, pos) ==
    SubSeq(ns, 1, pos) \o SubSeq(ns, pos + 2, Len(ns))

\* Lines 258-266.  acc = [nodes, permutations, n, panic]; k is the index of
\* the candidate being processed.
RECURSIVE AddLoop(_, _, _, _, _, _)
AddLoop(acc, batch, k, p, hh1, hh2) ==
    IF k > Len(batch) THEN acc
    ELSE LET node == batch[k]
             pos  == SearchStrings(acc.nodes, node)
         IN  IF pos >= Len(acc.nodes)
             THEN [acc EXCEPT !.panic = TRUE]
             ELSE IF acc.nodes[pos + 1] # node
             THEN AddLoop(
                    [nodes        |-> InsertAt(acc.nodes, pos, node),
                     permutations |->
                        [x \in (DOMAIN acc.permutations) \cup {node} |->
                            IF x = node
                            THEN generatePermutationsForNode(node, p, hh1, hh2)
                            ELSE acc.permutations[x]],
                     n            |-> acc.n + 1,
                     panic        |-> FALSE],
                    batch, k + 1, p, hh1, hh2)
             ELSE AddLoop(acc, batch, k + 1, p, hh1, hh2)

\* A removal loop that forgets to discard the cached permutation.
RECURSIVE RemoveLoopKeepCache(_, _, _)
RemoveLoopKeepCache(acc, batch, k) ==
    IF k > Len(batch) THEN acc
    ELSE LET node == batch[k]
             pos  == SearchStrings(acc.nodes, node)
         IN  IF pos >= Len(acc.nodes)
             THEN [acc EXCEPT !.panic = TRUE]
             ELSE IF acc.nodes[pos + 1] = node
             THEN RemoveLoopKeepCache(
                    [acc EXCEPT !.nodes = SubSeq(acc.nodes, 1, pos)
                                          \o SubSeq(acc.nodes, pos + 2,
                                                    Len(acc.nodes)),
                                !.n = acc.n + 1],
                    batch, k + 1)
             ELSE RemoveLoopKeepCache(acc, batch, k + 1)

\* Lines 279-287.
RECURSIVE RemoveLoop(_, _, _)
RemoveLoop(acc, batch, k) ==
    IF k > Len(batch) THEN acc
    ELSE LET node == batch[k]
             pos  == SearchStrings(acc.nodes, node)
         IN  IF pos >= Len(acc.nodes)
             THEN [acc EXCEPT !.panic = TRUE]
             ELSE IF acc.nodes[pos + 1] = node
             THEN RemoveLoop(
                    [nodes        |-> DeleteAt(acc.nodes, pos),
                     permutations |->
                        [x \in (DOMAIN acc.permutations) \ {node} |->
                            acc.permutations[x]],
                     n            |-> acc.n + 1,
                     panic        |-> FALSE],
                    batch, k + 1)
             ELSE RemoveLoop(acc, batch, k + 1)

----------------------------------------------------------------------------
(* State machine *)

Snapshot == [nodes |-> nodes, lookup |-> lookup, permutations |-> permutations]

Result(op, args, n, err, found, np) ==
    [op |-> op, args |-> args, n |-> n, err |-> err, found |-> found, np |-> np]

\* No call is in progress: the caller holds no result.
Idle == Result("none", <<>>, NoValue, "nil", FALSE, 0)

NoSnapshot == [nodes |-> <<>>, lookup |-> <<>>, permutations |-> <<>>]

Init ==
    /\ constructed = FALSE
    /\ numPartitions = 0
    /\ h1 = [x \in Nodes |-> 0]
    /\ h2 = [x \in Nodes |-> 0]
    /\ nodes = <<>>
    /\ permutations = <<>>
    /\ lookup = <<>>
    /\ ret = Idle
    /\ old = NoSnapshot

\* NewMaglev(list, np, hh1, hh2), lines 166-188.  No instance is returned
\* when numPartitions is rejected, nor if the first build were to panic.
NewMaglev(list, np, hh1, hh2) ==
    /\ ret = Idle
    /\ ~constructed
    /\ old' = Snapshot
    /\ IF ~ProbablyPrime(np)
       THEN /\ ret' = Result("NewMaglev", list, NoValue, "config", FALSE, np)
            /\ UNCHANGED <<constructed, numPartitions, h1, h2, nodes,
                           permutations, lookup>>
       ELSE LET nodescopy == SortStrings(list)
                perms     == IF Len(list) > 0
                             THEN generatePermutations(nodescopy, np, hh1, hh2)
                             ELSE <<>>
                st        == IF Len(list) > 0
                             THEN populateLookup(nodescopy, perms, np)
                             ELSE [lookup |-> <<>>, panic |-> FALSE]
            IN  IF st.panic
                THEN /\ ret' = Result("NewMaglev", list, NoValue, "panic",
                                      FALSE, np)
                     /\ UNCHANGED <<constructed, numPartitions, h1, h2, nodes,
                                    permutations, lookup>>
                ELSE /\ constructed' = TRUE
                     /\ numPartitions' = np
                     /\ h1' = hh1
                     /\ h2' = hh2
                     /\ nodes' = nodescopy
                     /\ permutations' = perms
                     /\ lookup' = st.lookup
                     /\ ret' = Result("NewMaglev", list, NoValue, "nil",
                                      FALSE, np)

\* Add(batch...), lines 256-272, as a function of the instance's fields:
\* the fields after the call, the count returned and the error.
AddCall(ns, perms, tbl, batch, p, hh1, hh2) ==
    LET acc == AddLoop([nodes |-> ns, permutations |-> perms,
                        n |-> 0, panic |-> FALSE],
                       batch, 1, p, hh1, hh2)
    IN  IF acc.panic \/ Len(acc.nodes) = 0
        THEN [nodes |-> acc.nodes, permutations |-> acc.permutations,
              lookup |-> tbl, n |-> NoValue, err |-> "panic"]
        ELSE LET st == populateLookup(acc.nodes, acc.permutations, p)
             IN  [nodes        |-> acc.nodes,
                  permutations |-> acc.permutations,
                  lookup       |-> st.lookup,
                  n            |-> IF st.panic THEN NoValue ELSE acc.n,
                  err          |-> IF st.panic THEN "panic"
                                   ELSE IF Len(acc.nodes) > p THEN "capacity"
                                   ELSE "nil"]

Add(batch) ==
    /\ ret = Idle
    /\ constructed
    /\ old' = Snapshot
    /\ UNCHANGED <<constructed, numPartitions, h1, h2>>
    /\ LET r == AddCall(nodes, permutations, lookup, batch,
                        numPartitions, h1, h2)
       IN  /\ nodes' = r.nodes
           /\ permutations' = r.permutations
           /\ lookup' = r.lookup
           /\ ret' = Result("Add", batch, r.n, r.err, FALSE, 0)

\* Remove(batch...), lines 277-293, as a function of the instance's fields.
RemoveCall(ns, perms, tbl, batch, p) ==
    LET acc == RemoveLoop([nodes |-> ns, permutations |-> perms,
                           n |-> 0, panic |-> FALSE],
                          batch, 1)
    IN  IF acc.panic
        THEN [nodes |-> acc.nodes, permutations |-> acc.permutations,
              lookup |-> tbl, n |-> NoValue, err |-> "panic"]
        ELSE IF Len(acc.nodes) = 0
        THEN [nodes |-> acc.nodes, permutations |-> acc.permutations,
              lookup |-> tbl, n |-> acc.n, err |-> "empty"]
        ELSE LET st == populateLookup(acc.nodes, acc.permutations, p)
             IN  [nodes        |-> acc.nodes,
                  permutations |-> acc.permutations,
                  lookup       |-> st.lookup,
                  n            |-> IF st.panic THEN NoValue ELSE acc.n,
                  err          |-> IF st.panic THEN "panic" ELSE "nil"]

Remove(batch) ==
    /\ ret = Idle
    /\ constructed
    /\ old' = Snapshot
    /\ UNCHANGED <<constructed, numPartitions, h1, h2>>
    /\ LET r == RemoveCall(nodes, permutations, lookup, batch, numPartitions)
       IN  /\ nodes' = r.nodes
           /\ permutations' = r.permutations
           /\ lookup' = r.lookup
           /\ ret' = Result("Remove", batch, r.n, r.err, FALSE, 0)

\* Contains(node), lines 245-251.
Contains(node) ==
    /\ ret = Idle
    /\ constructed
    /\ old' = Snapshot
    /\ UNCHANGED <<constructed, numPartitions, h1, h2, nodes, permutations,
                   lookup>>
    /\ LET pos == SearchStrings(nodes, node)
       IN  IF pos >= Len(nodes)
           THEN ret' = Result("Contains", <<node>>, NoValue, "panic", FALSE, 0)
           ELSE ret' = Result("Contains", <<node>>, NoValue, "nil",
                              nodes[pos + 1] = node, 0)

\* Lookup(key), lines 234-237.  The node returned is recorded in ret.n.
LookupKey(key) ==
    /\ ret = Idle
    /\ constructed
    /\ old' = Snapshot
    /\ UNCHANGED <<constructed, numPartitions, h1, h2, nodes, permutations,
                   lookup>>
    /\ LET v == Lookup(lookup, key, numPartitions)
       IN  ret' = Result("Lookup", <<key>>, v,
                         IF v = NoValue THEN "panic" ELSE "nil", FALSE, 0)

\* The call has returned: the caller takes the result and may call again.
Return ==
    /\ ret # Idle
    /\ ret' = Idle
    /\ old' = NoSnapshot
    /\ UNCHANGED <<constructed, numPartitions, h1, h2, nodes, permutations,
                   lookup>>

Next ==
    \/ /\ ret = Idle /\ ~constructed
       /\ \E list \in NodeLists, np \in 0..MaxPartitions, hh1, hh2 \in Hashers :
             NewMaglev(list, np, hh1, hh2)
    \/ \E batch \in Batches : Add(batch)
    \/ \E batch \in Batches : Remove(batch)
    \/ \E node \in Nodes : Contains(node)
    \/ \E key \in Keys : LookupKey(key)
    \/ Return

Spec == Init /\ [][Next]_vars

\* The permutation generator on its own: generatePermutationsForNode applied
\* to a node whose hash values are a and b, for a prime number of partitions.
GeneratePermutation(node, np, a, b) ==
    /\ ProbablyPrime(np)
    /\ numPartitions' = np
    /\ h1' = [x \in Nodes |-> a]
    /\ h2' = [x \in Nodes |-> b]
    /\ permutations' = [x \in {node} |->
                          generatePermutationsForNode(node, np,
                                                      [y \in Nodes |-> a],
                                                      [y \in Nodes |-> b])]
    /\ UNCHANGED <<constructed, nodes, lookup, ret, old>>

NextPerm ==
    \E node \in Nodes, np \in 0..MaxPartitions, a, b \in 0..MaxHashValue :
        GeneratePermutation(node, np, a, b)

SpecPerm == Init /\ [][NextPerm]_vars

----------------------------------------------------------------------------
(* Properties *)

Count(tbl, x) == Cardinality({c \in 1..Len(tbl) : tbl[c] = x})

\* The primes, by divisibility.
Prime(n) == n > 1 /\ \A d \in 2..(n - 1) : n % d # 0

Rebuilt == /\ ret.op \in {"NewMaglev", "Add", "Remove"}
           /\ ret.err \in {"nil", "capacity"}
           /\ constructed
           /\ nodes # <<>>

\* C1: whenever the instance has a non-empty NodeSet (after NewMaglev with a
\* non-empty list and after any Add/Remove calls), the lookup table has
\* length numPartitions and every slot holds an owner, none is unassigned.
C1_TableFull ==
    (constructed /\ nodes # <<>>) =>
        /\ Len(lookup) = numPartitions
        /\ \A c \in 1..Len(lookup) : lookup[c] # Empty /\ lookup[c] \in Nodes

C1_Witness ==
    /\ ret.op = "Remove" /\ ret.err = "nil" /\ ret.n >= 1
    /\ Len(nodes) >= 2
    /\ numPartitions = 5 /\ Len(lookup) = 5

\* C2: in every table the round-robin fill has just built for a non-empty
\* NodeSet, the partition counts of any two nodes differ by at most 1.
C2_Balanced ==
    Rebuilt =>
        \A a, b \in Range(nodes) : Count(lookup, a) - Count(lookup, b) <= 1

C2_Witness ==
    /\ Rebuilt /\ ret.op = "Add" /\ ret.n >= 1
    /\ Len(nodes) = 3 /\ numPartitions = 5
    /\ \E a, b \in Range(nodes) : Count(lookup, a) = Count(lookup, b) + 1

\* C3: a Remove whose batch covers the whole (non-empty) NodeSet, so that
\* zero nodes result, returns the EmptyMembership error, does not rebuild
\* the table and leaves Lookup(key) as it was for every key.
C3_RemoveToEmpty ==
    (/\ ret.op = "Remove"
     /\ old.nodes # <<>>
     /\ Range(old.nodes) \subseteq Range(ret.args)) =>
        /\ ret.err = "empty"
        /\ nodes = <<>>
        /\ lookup = old.lookup
        /\ \A key \in Keys : Lookup(lookup, key, numPartitions)
                               = Lookup(old.lookup, key, numPartitions)

\* C4: an Add that pushes the node count above numPartitions returns the
\* CapacityExceeded error with the count of nodes added, Size() is the new
\* count and the table is rebuilt, every partition owned by a node of the
\* enlarged NodeSet.
C4_AddOverCapacity ==
    (/\ ret.op = "Add"
     /\ old.nodes # <<>>
     /\ Len(old.nodes) <= numPartitions
     /\ Cardinality(Range(old.nodes) \cup Range(ret.args)) > numPartitions) =>
        /\ ret.err = "capacity"
        /\ ret.n = Cardinality(Range(ret.args) \ Range(old.nodes))
        /\ Size = Cardinality(Range(old.nodes) \cup Range(ret.args))
        /\ Len(lookup) = numPartitions
        /\ \A c \in 1..Len(lookup) : lookup[c] \in Range(nodes)

\* C5: once a Remove has emptied the NodeSet of an instance that had a
\* table, an Add of one or more nodes (at most numPartitions of them)
\* completes without error or abort, returns the number of nodes added and
\* leaves a table in which every partition is owned by a node of the new
\* NodeSet.
C5_AddAfterEmpty ==
    (/\ ret.op = "Add"
     /\ old.nodes = <<>>
     /\ Len(old.lookup) = numPartitions
     /\ ret.args # <<>>
     /\ Cardinality(Range(ret.args)) <= numPartitions) =>
        /\ ret.err = "nil"
        /\ ret.n = Cardinality(Range(ret.args))
        /\ Range(nodes) = Range(ret.args)
        /\ Len(lookup) = numPartitions
        /\ \A c \in 1..Len(lookup) : lookup[c] \in Range(nodes)

\* C6: on a non-empty NodeSet, Add returns the number of distinct candidates
\* not already present; afterwards the NodeSet is the old one united with
\* the candidates, in sorted order without repetition, and each node has its
\* permutation cached.
C6_AddInserts ==
    (ret.op = "Add" /\ old.nodes # <<>>) =>
        /\ ret.err \in {"nil", "capacity"}
        /\ ret.n = Cardinality(Range(ret.args) \ Range(old.nodes))
        /\ Range(nodes) = Range(old.nodes) \cup Range(ret.args)
        /\ \A i \in 1..(Len(nodes) - 1) : nodes[i] < nodes[i + 1]
        /\ DOMAIN permutations = Range(nodes)
        /\ \A x \in Range(nodes) :
              permutations[x] = generatePermutationsForNode(x, numPartitions, h1, h2)

\* C7: on a non-empty NodeSet without x, two successive calls Add(x) return
\* 1 and then 0, and the second call leaves the NodeSet and the lookup table
\* as the first call left them.  Stated in the state the first call leaves,
\* the second call being AddCall on that state.
C7_AddTwice ==
    \A x \in Nodes :
        (/\ ret.op = "Add" /\ ret.args = <<x>>
         /\ old.nodes # <<>> /\ x \notin Range(old.nodes)) =>
            LET second == AddCall(nodes, permutations, lookup, <<x>>,
                                  numPartitions, h1, h2)
            IN  /\ ret.n = 1
                /\ second.n = 0
                /\ second.nodes = nodes
                /\ second.lookup = lookup

\* C8: on a non-empty NodeSet, Remove returns the number of candidates that
\* were present, removes exactly those and discards their permutations; an
\* absent candidate is ignored and does not make the call fail.
C8_RemoveDeletes ==
    (ret.op = "Remove" /\ old.nodes # <<>>) =>
        /\ ret.err \in {"nil", "empty"}
        /\ ret.n = Cardinality(Range(ret.args) \cap Range(old.nodes))
        /\ Range(nodes) = Range(old.nodes) \ Range(ret.args)
        /\ DOMAIN permutations = Range(nodes)

\* C9: Contains(node) returns true exactly when node is in the NodeSet and
\* false otherwise, wherever node sorts among the nodes.
C9_Contains ==
    ret.op = "Contains" =>
        /\ ret.err = "nil"
        /\ ret.found <=> (ret.args[1] \in Range(nodes))

\* C10: NewMaglev returns the configuration error and no instance exactly
\* when numPartitions is not prime; for a prime it returns an instance and
\* no error.
C10_PrimeCheck ==
    ret.op = "NewMaglev" =>
        /\ (ret.err = "config" /\ ~constructed) <=> ~Prime(ret.np)
        /\ Prime(ret.np) => (constructed /\ ret.err = "nil"
                              /\ numPartitions = ret.np)

C10_Witness ==
    /\ ret.op = "NewMaglev" /\ ret.np = 4
    /\ ret.err = "config" /\ ~constructed

\* C11: for a prime numPartitions p and any hash values, the sequence
\* generated for a node has length p, holds every partition index of
\* [0, p) exactly once, and its i-th element is (offset + i*skip) mod p with
\* offset = h1(node) mod p and skip = (h2(node) mod (p-1)) + 1.
C11_Permutation ==
    \A x \in DOMAIN permutations :
        LET perm == permutations[x]
            p    == numPartitions
        IN  /\ Len(perm) = p
            /\ {perm[i] : i \in 1..p} = 0..(p - 1)
            /\ \A i, j \in 1..p : perm[i] = perm[j] => i = j
            /\ \A i \in 1..p :
                  perm[i] = ((h1[x] % p) + (i - 1) * ((h2[x] % (p - 1)) + 1)) % p

C11_Witness ==
    /\ numPartitions = 5
    /\ \E x \in DOMAIN permutations :
          /\ h1[x] = 6 /\ h2[x] = 6
          /\ permutations[x] = <<1, 4, 2, 0, 3>>

\* The table NewMaglev builds from a node list with the instance's
\* numPartitions and hashers.
TableOf(list) ==
    LET sorted == SortStrings(list)
    IN  populateLookup(sorted,
                       generatePermutations(sorted, numPartitions, h1, h2),
                       numPartitions).lookup

\* C13: after NewMaglev and after every Add or Remove that returns without
\* error, the lookup table is the one NewMaglev builds from the current
\* NodeSet, whatever the history of membership changes; and the table
\* NewMaglev builds is the same for every order of its node list.  The table
\* depends on the NodeSet, numPartitions and the hashers only.
C13_TableOfNodeSet ==
    (/\ ret.op \in {"NewMaglev", "Add", "Remove"}
     /\ ret.err = "nil"
     /\ constructed
     /\ nodes # <<>>) =>
        /\ lookup = TableOf(nodes)
        /\ ret.op = "NewMaglev" =>
              \A list \in NodeLists :
                  Range(list) = Range(ret.args) => lookup = TableOf(list)

C13_Witness ==
    /\ ret.op = "Add" /\ ret.err = "nil" /\ ret.n = 1
    /\ Len(old.nodes) = 2 /\ Len(nodes) = 3 /\ nodes[1] \notin Range(old.nodes)
    /\ numPartitions = 5
    /\ lookup = TableOf(<<3, 1, 2>>)
    /\ Cardinality(Range(lookup)) = 3

\* C14: the node list is strictly ascending (sorted, no duplicates) after
\* NewMaglev with distinct nodes and after any Add or Remove, also when a
\* batch repeats a candidate.
C14_NodesAscending ==
    \A i \in 1..(Len(nodes) - 1) : nodes[i] < nodes[i + 1]

C14_Witness ==
    /\ ret.op = "Add" /\ ret.args = <<1, 1>> /\ ret.n = 1 /\ ret.err = "nil"
    /\ nodes = <<1, 2, 3>>

\* The build of the table from the instance's node list and cached
\* permutations: the table, the cursors and the filled counter it ends with.
Build == populateLookup(nodes, permutations, numPartitions)

\* C15: in every build for a non-empty NodeSet of at most numPartitions
\* nodes, each read of a node's permutation is at a cursor in
\* [0, numPartitions): no build runs past the end of a permutation, neither
\* the one NewMaglev makes nor the ones Add and Remove make.
C15_CursorInRange ==
    /\ (/\ ret.op = "NewMaglev" /\ ret.args # <<>>
        /\ Len(ret.args) <= ret.np) => ret.err # "panic"
    /\ (constructed /\ nodes # <<>> /\ Len(nodes) <= numPartitions) =>
          LET st == Build
          IN  /\ ret.err = "panic" => lookup = old.lookup
              /\ ~st.panic
              /\ \A i \in 1..Len(nodes) : st.next[i] \in 1..numPartitions

C15_Witness ==
    /\ Rebuilt /\ ret.op = "Add" /\ ret.err = "nil"
    /\ Len(nodes) = 3 /\ numPartitions = 3
    /\ Build.next[3] = 3

\* C16: the round-robin fill for a non-empty NodeSet stops when its filled
\* counter equals numPartitions, having made numPartitions assignments,
\* each to a slot that was empty: the table it leaves has numPartitions
\* assigned slots and is the instance's table.
C16_FillStops ==
    Rebuilt =>
        LET st == Build
        IN  /\ ~st.panic
            /\ st.n = numPartitions
            /\ st.lookup = lookup
            /\ Cardinality({c \in 1..Len(lookup) : lookup[c] # Empty}) = st.n

C16_Witness ==
    /\ Rebuilt /\ ret.op = "Add" /\ ret.err = "capacity"
    /\ Len(nodes) = 3 /\ numPartitions = 2
    /\ Build.n = 2

\* C17: Add and Remove leave the cached permutation of every node they
\* neither insert nor remove as it was, and after every Add or Remove the
\* nodes that have a cached permutation are exactly the nodes of the
\* NodeSet.
C17_CacheFrame ==
    ret.op \in {"Add", "Remove"} =>
        /\ DOMAIN permutations = Range(nodes)
        /\ \A x \in Range(nodes) \cap Range(old.nodes) :
              /\ x \in DOMAIN old.permutations
              /\ permutations[x] = old.permutations[x]

C17_Witness ==
    /\ ret.op = "Remove" /\ ret.err = "nil" /\ ret.n = 1
    /\ Len(old.nodes) = 3 /\ Len(nodes) = 2
    /\ DOMAIN old.permutations = {1, 2, 3}
    /\ \E x \in Range(nodes) : permutations[x] = old.permutations[x]

\* C18 as stated: on an instance whose NodeSet is empty, Lookup(key) fails
\* loudly for every key.
C18_LookupOnEmptyFails ==
    (ret.op = "Lookup" /\ nodes = <<>>) => ret.err = "panic"

\* C18 as amended: on an instance whose NodeSet is empty, Lookup(key) fails
\* loudly (index out of range) when the table was never built, the instance
\* having been constructed with an empty node list; when the NodeSet was
\* emptied by Remove, Lookup(key) returns without failure the owner the
\* stale table records at index key mod numPartitions, a removed node.
C18_LookupOnEmpty ==
    (ret.op = "Lookup" /\ nodes = <<>>) =>
        IF lookup = <<>>
        THEN ret.err = "panic"
        ELSE /\ ret.err = "nil"
             /\ Len(lookup) = numPartitions
             /\ ret.n = lookup[(ret.args[1] % numPartitions) + 1]
             /\ ret.n \in Nodes

C18_Witness ==
    /\ ret.op = "Lookup" /\ nodes = <<>>
    /\ lookup # <<>> /\ ret.args[1] >= numPartitions
    /\ ret.err = "nil" /\ ret.n \in Nodes

\* C19: after NewMaglev with a non-empty node list and after every Add or
\* Remove that returns without error, Lookup(key) is for every key a member
\* of the current NodeSet, never the empty string, and is the table entry at
\* index key mod numPartitions.
C19_LookupMember ==
    (/\ ret.op \in {"NewMaglev", "Add", "Remove"}
     /\ ret.err = "nil"
     /\ constructed
     /\ nodes # <<>>) =>
        \A key \in Keys :
            /\ Lookup(lookup, key, numPartitions) \in Range(nodes)
            /\ Lookup(lookup, key, numPartitions) # Empty
            /\ Lookup(lookup, key, numPartitions)
                  = lookup[(key % numPartitions) + 1]

C19_Witness ==
    /\ ret.op = "Remove" /\ ret.err = "nil" /\ ret.n = 1
    /\ \E key \in Keys :
          /\ key >= numPartitions
          /\ Lookup(old.lookup, key, numPartitions) \notin Range(nodes)
          /\ Lookup(lookup, key, numPartitions) \in Range(nodes)

====
